---- MODULE Spec2Model ----
(***************************************************************************)
(* LocalStorageService (src/src/services/local-storage.service.ts): a      *)
(* facade over window.localStorage that JSON-encodes values on write and   *)
(* JSON-decodes them on read, plus a construction-time availability probe. *)
(*                                                                         *)
(* JavaScript values are records [t |-> tag, v |-> payload].  Text (JSON   *)
(* documents, string values, raw storage contents) is a sequence of        *)
(* one-character strings, so that encoding and decoding are computed       *)
(* character by character.  The modelled JSON alphabet is: the literals    *)
(* null/true/false, integers without fraction or exponent, strings with    *)
(* the escapes \" and \\, arrays, objects and the blank " ".               *)
(***************************************************************************)
EXTENDS Integers, Sequences, FiniteSets

(***************************************************************************)
(* Bounds of the model.                                                    *)
(***************************************************************************)
\* longest key list handed to flush
MaxFlushLen == 2
\* largest magnitude of the integer values handed to set
MaxNum == 10

(***************************************************************************)
(* JavaScript values.                                                      *)
(***************************************************************************)
Undefined == [t |-> "undefined", v |-> 0]
Null == [t |-> "null", v |-> 0]
NaN == [t |-> "nan", v |-> 0]
Infinity == [t |-> "infinity", v |-> 0]
\* a function object: JSON.stringify yields undefined for it
Fn == [t |-> "function", v |-> 0]
\* an object that references itself: JSON.stringify throws on it
Circular == [t |-> "circular", v |-> 0]
Bool(b) == [t |-> "bool", v |-> b]
Num(n) == [t |-> "num", v |-> n]
Str(s) == [t |-> "str", v |-> s]
Arr(items) == [t |-> "arr", v |-> items]
\* members is a sequence of <<key text, value>> in property order
Obj(members) == [t |-> "obj", v |-> members]

RECURSIVE Join(_, _)
Join(ss, sep) ==
    IF ss = <<>> THEN <<>>
    ELSE IF Len(ss) = 1 THEN ss[1]
    ELSE ss[1] \o sep \o Join(Tail(ss), sep)

Digits == <<"0", "1", "2", "3", "4", "5", "6", "7", "8", "9">>
IsDigit(c) == \E d \in 1..10 : Digits[d] = c
DigitVal(c) == (CHOOSE d \in 1..10 : Digits[d] = c) - 1

RECURSIVE NatText(_)
NatText(n) ==
    IF n < 10 THEN <<Digits[n + 1]>>
    ELSE NatText(n \div 10) \o <<Digits[(n % 10) + 1]>>

NumText(n) == IF n < 0 THEN <<"-">> \o NatText(-n) ELSE NatText(n)

NullText == <<"n", "u", "l", "l">>
TrueText == <<"t", "r", "u", "e">>
FalseText == <<"f", "a", "l", "s", "e">>
UndefinedText == <<"u", "n", "d", "e", "f", "i", "n", "e", "d">>

\* JSON.stringify's Quote: the text between double quotes, " and \ escaped
RECURSIVE Escape(_)
Escape(s) ==
    IF s = <<>> THEN <<>>
    ELSE (IF Head(s) \in {"\"", "\\"} THEN <<"\\", Head(s)>> ELSE <<Head(s)>>)
         \o Escape(Tail(s))

Quote(s) == <<"\"">> \o Escape(s) \o <<"\"">>

\* JSON.stringify throws a TypeError on a cyclic structure
RECURSIVE HasCycle(_)
HasCycle(x) ==
    CASE x.t = "circular" -> TRUE
      [] x.t = "arr" -> \E i \in 1..Len(x.v) : HasCycle(x.v[i])
      [] x.t = "obj" -> \E i \in 1..Len(x.v) : HasCycle(x.v[i][2])
      [] OTHER -> FALSE

\* values JSON.stringify has no text for: dropped from objects, null in arrays
NoText(x) == x.t \in {"undefined", "function"}

RECURSIVE SelectMembers(_)
SelectMembers(ms) ==
    IF ms = <<>> THEN <<>>
    ELSE (IF NoText(Head(ms)[2]) THEN <<>> ELSE <<Head(ms)>>)
         \o SelectMembers(Tail(ms))

\* the text JSON.stringify produces for a value that has one
RECURSIVE Stringify(_)
Stringify(x) ==
    CASE x.t = "null" -> NullText
      [] x.t = "nan" -> NullText
      [] x.t = "infinity" -> NullText
      [] x.t = "bool" -> (IF x.v THEN TrueText ELSE FalseText)
      [] x.t = "num" -> NumText(x.v)
      [] x.t = "str" -> Quote(x.v)
      [] x.t = "arr" ->
            <<"[">>
            \o Join([i \in 1..Len(x.v) |->
                        IF NoText(x.v[i]) THEN NullText ELSE Stringify(x.v[i])],
                    <<",">>)
            \o <<"]">>
      [] x.t = "obj" ->
            LET ms == SelectMembers(x.v) IN
            <<"{">>
            \o Join([i \in 1..Len(ms) |->
                        Quote(ms[i][1]) \o <<":">> \o Stringify(ms[i][2])],
                    <<",">>)
            \o <<"}">>

\* JSON.stringify(value): a string, undefined, or a thrown TypeError
JSONstringify(x) ==
    IF HasCycle(x) THEN [threw |-> TRUE, val |-> Undefined]
    ELSE IF NoText(x) THEN [threw |-> FALSE, val |-> Undefined]
    ELSE [threw |-> FALSE, val |-> Str(Stringify(x))]

(***************************************************************************)
(* JSON.parse, by recursive descent over the text.  A parse result is      *)
(* [ok, val, next]: next is the position after the parsed value.           *)
(***************************************************************************)
Fail == [ok |-> FALSE, val |-> Null, next |-> 0]
Ok(x, n) == [ok |-> TRUE, val |-> x, next |-> n]

RECURSIVE SkipWs(_, _)
SkipWs(s, i) == IF i <= Len(s) /\ s[i] = " " THEN SkipWs(s, i + 1) ELSE i

StartsWith(s, i, lit) ==
    /\ i + Len(lit) - 1 <= Len(s)
    /\ SubSeq(s, i, i + Len(lit) - 1) = lit

ParseLiteral(s, i, lit, x) ==
    IF StartsWith(s, i, lit) THEN Ok(x, i + Len(lit)) ELSE Fail

RECURSIVE ParseDigits(_, _, _)
ParseDigits(s, i, acc) ==
    IF i <= Len(s) /\ IsDigit(s[i])
    THEN ParseDigits(s, i + 1, acc * 10 + DigitVal(s[i]))
    ELSE [val |-> acc, next |-> i]

\* number: -? (0 | [1-9][0-9]*); numbers are integers here, -0 reads as 0
ParseNumber(s, i) ==
    LET neg == s[i] = "-"
        j == IF neg THEN i + 1 ELSE i
    IN  IF j > Len(s) \/ ~IsDigit(s[j]) THEN Fail
        ELSE IF s[j] = "0" THEN Ok(Num(0), j + 1)
        ELSE LET d == ParseDigits(s, j, 0)
             IN  Ok(Num(IF neg THEN -d.val ELSE d.val), d.next)

\* the characters of a string, from the position after its opening quote
RECURSIVE ParseChars(_, _, _)
ParseChars(s, j, acc) ==
    IF j > Len(s) THEN Fail
    ELSE IF s[j] = "\"" THEN Ok(Str(acc), j + 1)
    ELSE IF s[j] = "\\"
         THEN IF j + 1 <= Len(s) /\ s[j + 1] \in {"\"", "\\"}
              THEN ParseChars(s, j + 2, Append(acc, s[j + 1]))
              ELSE Fail
    ELSE ParseChars(s, j + 1, Append(acc, s[j]))

ParseString(s, i) ==
    IF i <= Len(s) /\ s[i] = "\"" THEN ParseChars(s, i + 1, <<>>) ELSE Fail

\* a repeated member name keeps its place and takes the later value
SetMember(ms, k, x) ==
    IF \E i \in 1..Len(ms) : ms[i][1] = k
    THEN [i \in 1..Len(ms) |-> IF ms[i][1] = k THEN <<k, x>> ELSE ms[i]]
    ELSE Append(ms, <<k, x>>)

RECURSIVE ParseValue(_, _)
RECURSIVE ParseElements(_, _, _, _)
RECURSIVE ParseMembers(_, _, _, _)

ParseValue(s, i) ==
    LET j == SkipWs(s, i) IN
    IF j > Len(s) THEN Fail
    ELSE CASE s[j] = "n" -> ParseLiteral(s, j, NullText, Null)
           [] s[j] = "t" -> ParseLiteral(s, j, TrueText, Bool(TRUE))
           [] s[j] = "f" -> ParseLiteral(s, j, FalseText, Bool(FALSE))
           [] s[j] = "\"" -> ParseString(s, j)
           [] s[j] = "[" -> ParseElements(s, SkipWs(s, j + 1), <<>>, TRUE)
           [] s[j] = "{" -> ParseMembers(s, SkipWs(s, j + 1), <<>>, TRUE)
           [] s[j] = "-" \/ IsDigit(s[j]) -> ParseNumber(s, j)
           [] OTHER -> Fail

ParseElements(s, i, acc, first) ==
    IF i > Len(s) THEN Fail
    ELSE IF first /\ s[i] = "]" THEN Ok(Arr(acc), i + 1)
    ELSE LET r == ParseValue(s, i)
             j == SkipWs(s, r.next)
         IN  IF ~r.ok \/ j > Len(s) THEN Fail
             ELSE IF s[j] = ","
                  THEN ParseElements(s, SkipWs(s, j + 1), Append(acc, r.val), FALSE)
             ELSE IF s[j] = "]" THEN Ok(Arr(Append(acc, r.val)), j + 1)
             ELSE Fail

ParseMembers(s, i, acc, first) ==
    IF i > Len(s) THEN Fail
    ELSE IF first /\ s[i] = "}" THEN Ok(Obj(acc), i + 1)
    ELSE LET k == ParseString(s, i)
             c == SkipWs(s, k.next)
         IN  IF ~k.ok \/ c > Len(s) \/ s[c] # ":" THEN Fail
             ELSE LET r == ParseValue(s, c + 1)
                      j == SkipWs(s, r.next)
                  IN  IF ~r.ok \/ j > Len(s) THEN Fail
                      ELSE IF s[j] = ","
                           THEN ParseMembers(s, SkipWs(s, j + 1),
                                             SetMember(acc, k.val.v, r.val), FALSE)
                      ELSE IF s[j] = "}"
                           THEN Ok(Obj(SetMember(acc, k.val.v, r.val)), j + 1)
                      ELSE Fail

\* ToString, for the values that reach JSON.parse and Storage.setItem
ToString(x) ==
    CASE x.t = "str" -> x.v
      [] x.t = "null" -> NullText
      [] x.t = "undefined" -> UndefinedText

\* JSON.parse(value): the decoded value, or a thrown SyntaxError
JSONparse(x) ==
    LET s == ToString(x)
        r == ParseValue(s, 1)
    IN  IF r.ok /\ SkipWs(s, r.next) > Len(s)
        THEN [threw |-> FALSE, val |-> r.val]
        ELSE [threw |-> TRUE, val |-> Undefined]

(***************************************************************************)
(* The state.                                                              *)
(***************************************************************************)
VARIABLES
    store,                  \* window.localStorage's items: key -> raw text
    localStorage,           \* what evaluating window.localStorage does now
    isLocalStorageEnabled,  \* the instance's field
    isLocalStoragePresent,  \* the instance's field
    last,                   \* the latest step: the call, its outcome, its log
    probed,                 \* history: localStorage when checkSupport ran
    written                 \* history: per key, the latest step that affected it

vars ==
    <<store, localStorage, isLocalStorageEnabled, isLocalStoragePresent,
      last, probed, written>>

Keys == {"test", "other"}

\* evaluating window.localStorage yields the Storage object, yields null
\* (a navigator without it), or throws (storage forbidden, private mode)
Handles == {"ok", "null", "throws"}

ExampleObject ==
    Obj(<< << <<"k", "e", "y">>, Str(<<"t", "e", "s", "t">>) >>,
           << <<"v", "a", "l", "u", "e">>, Str(<<"v", "a", "l", "u", "e">>) >> >>)

ExampleText ==
    <<"{", "\"", "k", "e", "y", "\"", ":", "\"", "t", "e", "s", "t", "\"", ",",
      "\"", "v", "a", "l", "u", "e", "\"", ":",
      "\"", "v", "a", "l", "u", "e", "\"", "}">>

\* the values handed to set
Values ==
    {Undefined, Null, Bool(FALSE), NaN, Infinity, Fn, Circular,
     Num(MaxNum), Num(-MaxNum),
     Str(<<"a", "\"">>), Arr(<<Num(1), Null>>), ExampleObject}

\* raw texts other scripts of the page leave in the storage
ForeignTexts == {<<>>, <<"{", "b", "a", "d">>, <<" ", "7">>}

RECURSIVE SeqsUpTo(_, _)
SeqsUpTo(S, n) ==
    IF n = 0 THEN {<<>>}
    ELSE LET shorter == SeqsUpTo(S, n - 1)
         IN  shorter \cup {Append(q, x) : q \in shorter, x \in S}

\* the key lists handed to flush
KeyLists == SeqsUpTo(Keys, MaxFlushLen)

NoItems == [k \in {} |-> <<>>]

(***************************************************************************)
(* The Storage object's primitives.                                        *)
(***************************************************************************)
getItem(s, key) == IF key \in DOMAIN s THEN Str(s[key]) ELSE Null

setItem(s, key, x) ==
    [k \in DOMAIN s \cup {key} |-> IF k = key THEN ToString(x) ELSE s[k]]

removeItem(s, key) == [k \in DOMAIN s \ {key} |-> s[k]]

(***************************************************************************)
(* The service's methods, as functions of the storage items s and of what  *)
(* window.localStorage does (h): the outcome, the result and the items     *)
(* left behind.  window.localStorage is evaluated before the arguments of  *)
(* the call made on it.                                                    *)
(***************************************************************************)
Returned(s, x, lg) ==
    [outcome |-> "returned", result |-> x, store |-> s, log |-> lg]

Thrown(kind, s) ==
    [outcome |-> kind, result |-> Undefined, store |-> s, log |-> "none"]

serialize(value) == JSONstringify(value)

\* variant: the decoding step is skipped, the raw string is the result
deserializeSkipped(value) == [threw |-> FALSE, val |-> value, log |-> "none"]

\* variant: no try/catch around JSON.parse
deserializeUncaught(value) ==
    LET r == JSONparse(value)
    IN  [threw |-> r.threw, val |-> r.val, log |-> "none"]

\* try { JSON.parse } catch { console.warn; null }: threw is what escapes
deserialize(value) ==
    LET r == JSONparse(value)
    IN  IF r.threw THEN [threw |-> FALSE, val |-> Null, log |-> "warn"]
        ELSE [threw |-> FALSE, val |-> r.val, log |-> "none"]

\* variant: the catch branch leaves enabled true
checkSupportEnabledInCatch(h) ==
    IF h = "throws"
    THEN [present |-> TRUE, enabled |-> TRUE, log |-> "info"]
    ELSE [present |-> h # "null", enabled |-> TRUE, log |-> "none"]

checkSupport(h) ==
    IF h = "throws"
    THEN [present |-> TRUE, enabled |-> FALSE, log |-> "info"]
    ELSE [present |-> h # "null", enabled |-> TRUE, log |-> "none"]

isAvailable(present, enabled) == present /\ enabled

getFrom(s, key) ==
    LET d == deserialize(getItem(s, key))
    IN  IF d.threw THEN Thrown("DecodeFailure", s)
        ELSE Returned(s, d.val, d.log)

\* variant: get answers null when isAvailable() would be false
getGuarded(s, h, key) ==
    IF h # "ok" THEN Returned(s, Null, "none") ELSE getFrom(s, key)

get(s, h, key) ==
    IF h # "ok" THEN Thrown("StoreFailure", s) ELSE getFrom(s, key)

\* variant: no test for undefined
setWithoutSentinel(s, h, key, value) ==
    IF h # "ok" THEN Thrown("StoreFailure", s)
    ELSE LET e == serialize(value)
         IN  IF e.threw THEN Thrown("SerializationFailure", s)
             ELSE Returned(setItem(s, key, e.val), value, "none")

\* variant: the serialized form is returned
setReturnsSerialized(s, h, key, value) ==
    IF h # "ok" THEN Thrown("StoreFailure", s)
    ELSE IF value = Undefined
    THEN Returned(removeItem(s, key), Undefined, "none")
    ELSE LET e == serialize(value)
         IN  IF e.threw THEN Thrown("SerializationFailure", s)
             ELSE Returned(setItem(s, key, e.val), e.val, "none")

set(s, h, key, value) ==
    IF value = Undefined
    THEN IF h # "ok" THEN Thrown("StoreFailure", s)
         ELSE Returned(removeItem(s, key), Undefined, "none")
    ELSE IF h # "ok" THEN Thrown("StoreFailure", s)
    ELSE LET e == serialize(value)
         IN  IF e.threw THEN Thrown("SerializationFailure", s)
             ELSE Returned(setItem(s, key, e.val), value, "none")

RECURSIVE flushFrom(_, _, _, _)
flushFrom(s, h, keyToDelete, i) ==
    IF i > Len(keyToDelete) THEN Returned(s, Undefined, "none")
    ELSE IF h # "ok" THEN Thrown("StoreFailure", s)
    ELSE flushFrom(removeItem(s, keyToDelete[i]), h, keyToDelete, i + 1)

\* variant: the loop starts at the second key
flushFromSecond(s, h, keyToDelete) == flushFrom(s, h, keyToDelete, 2)

flush(s, h, keyToDelete) == flushFrom(s, h, keyToDelete, 1)

\* variant: clear removes the key "test" only
clearOneKey(s, h) ==
    IF h # "ok" THEN Thrown("StoreFailure", s)
    ELSE Returned(removeItem(s, "test"), Undefined, "none")

clear(s, h) ==
    IF h # "ok" THEN Thrown("StoreFailure", s)
    ELSE Returned(NoItems, Undefined, "none")

\* variant: remove leaves the item in place
removeNothing(s, h, key) ==
    IF h # "ok" THEN Thrown("StoreFailure", s)
    ELSE Returned(s, Undefined, "none")

remove(s, h, key) ==
    IF h # "ok" THEN Thrown("StoreFailure", s)
    ELSE Returned(removeItem(s, key), Undefined, "none")

(***************************************************************************)
(* Steps.                                                                  *)
(***************************************************************************)
\* had: the keys the storage held when the step began
Step(op, key, value, keys, r) ==
    [op |-> op, key |-> key, value |-> value, keys |-> keys,
     had |-> DOMAIN store,
     outcome |-> r.outcome, result |-> r.result, log |-> r.log]

NotWritten == [kind |-> "none", v |-> Undefined]
Removed == [kind |-> "removed", v |-> Undefined]
WasSet(x) == [kind |-> "set", v |-> x]
Foreign == [kind |-> "foreign", v |-> Undefined]

\* the keys in gone were removed by a call that returned
NoteRemoved(r, gone) ==
    IF r.outcome = "returned"
    THEN [k \in Keys |-> IF k \in gone THEN Removed ELSE written[k]]
    ELSE written

Range(q) == {q[i] : i \in 1..Len(q)}

Init ==
    /\ store = NoItems
    /\ localStorage \in Handles
    /\ isLocalStoragePresent = checkSupport(localStorage).present
    /\ isLocalStorageEnabled = checkSupport(localStorage).enabled
    /\ probed = localStorage
    /\ last = Step("new", "", Undefined, <<>>,
                   Returned(store, Undefined, checkSupport(localStorage).log))
    /\ written = [k \in Keys |-> NotWritten]

\* new LocalStorageService(): a fresh instance replaces the one in use
Construct ==
    LET c == checkSupport(localStorage) IN
    /\ isLocalStoragePresent' = c.present
    /\ isLocalStorageEnabled' = c.enabled
    /\ probed' = localStorage
    /\ last' = Step("new", "", Undefined, <<>>, Returned(store, Undefined, c.log))
    /\ UNCHANGED <<store, localStorage, written>>

\* variant: isAvailable() runs checkSupport again
IsAvailableReprobes ==
    LET c == checkSupport(localStorage) IN
    /\ isLocalStoragePresent' = c.present
    /\ isLocalStorageEnabled' = c.enabled
    /\ last' = Step("isAvailable", "", Undefined, <<>>,
                    Returned(store, Bool(isAvailable(c.present, c.enabled)),
                             c.log))
    /\ UNCHANGED <<store, localStorage, probed, written>>

IsAvailable ==
    /\ last' = Step("isAvailable", "", Undefined, <<>>,
                    Returned(store,
                             Bool(isAvailable(isLocalStoragePresent,
                                              isLocalStorageEnabled)),
                             "none"))
    /\ UNCHANGED <<store, localStorage, isLocalStorageEnabled,
                   isLocalStoragePresent, probed, written>>

Get(key) ==
    LET r == get(store, localStorage, key) IN
    /\ store' = r.store
    /\ last' = Step("get", key, Undefined, <<>>, r)
    /\ UNCHANGED <<localStorage, isLocalStorageEnabled, isLocalStoragePresent,
                   probed, written>>

Set(key, value) ==
    LET r == set(store, localStorage, key, value) IN
    /\ store' = r.store
    /\ last' = Step("set", key, value, <<>>, r)
    /\ written' = IF r.outcome # "returned" THEN written
                  ELSE IF value = Undefined THEN NoteRemoved(r, {key})
                  ELSE [written EXCEPT ![key] = WasSet(value)]
    /\ UNCHANGED <<localStorage, isLocalStorageEnabled, isLocalStoragePresent,
                   probed>>

Flush(keyToDelete) ==
    LET r == flush(store, localStorage, keyToDelete) IN
    /\ store' = r.store
    /\ last' = Step("flush", "", Undefined, keyToDelete, r)
    /\ written' = NoteRemoved(r, Range(keyToDelete))
    /\ UNCHANGED <<localStorage, isLocalStorageEnabled, isLocalStoragePresent,
                   probed>>

Clear ==
    LET r == clear(store, localStorage) IN
    /\ store' = r.store
    /\ last' = Step("clear", "", Undefined, <<>>, r)
    /\ written' = NoteRemoved(r, Keys)
    /\ UNCHANGED <<localStorage, isLocalStorageEnabled, isLocalStoragePresent,
                   probed>>

Remove(key) ==
    LET r == remove(store, localStorage, key) IN
    /\ store' = r.store
    /\ last' = Step("remove", key, Undefined, <<>>, r)
    /\ written' = NoteRemoved(r, {key})
    /\ UNCHANGED <<localStorage, isLocalStorageEnabled, isLocalStoragePresent,
                   probed>>

\* another script of the page writes a raw text into the storage
ForeignWrite(key, text) ==
    /\ localStorage = "ok"
    /\ store' = setItem(store, key, Str(text))
    /\ last' = Step("foreign", key, Str(text), <<>>,
                    Returned(store', Undefined, "none"))
    /\ written' = [written EXCEPT ![key] = Foreign]
    /\ UNCHANGED <<localStorage, isLocalStorageEnabled, isLocalStoragePresent,
                   probed>>

\* the navigator's storage setting changes; the items stay where they are
HandleChange(h) ==
    /\ h # localStorage
    /\ localStorage' = h
    /\ last' = Step("handle", "", Undefined, <<>>,
                    Returned(store, Undefined, "none"))
    /\ UNCHANGED <<store, isLocalStorageEnabled, isLocalStoragePresent,
                   probed, written>>

Next ==
    \/ Construct
    \/ IsAvailable
    \/ \E key \in Keys : Get(key)
    \/ \E key \in Keys, value \in Values : Set(key, value)
    \/ \E keyToDelete \in KeyLists : Flush(keyToDelete)
    \/ Clear
    \/ \E key \in Keys : Remove(key)
    \/ \E key \in Keys, text \in ForeignTexts : ForeignWrite(key, text)
    \/ \E h \in Handles : HandleChange(h)

Spec == Init /\ [][Next]_vars

(***************************************************************************)
(* Vocabulary of the properties.                                           *)
(***************************************************************************)
MemberKeys(ms) == {ms[i][1] : i \in 1..Len(ms)}
MemberVal(ms, k) == ms[CHOOSE i \in 1..Len(ms) : ms[i][1] = k][2]

\* structural equality; an object's members compare by name, in any order
RECURSIVE DeepEqual(_, _)
DeepEqual(a, b) ==
    /\ a.t = b.t
    /\ CASE a.t = "arr" ->
              /\ Len(a.v) = Len(b.v)
              /\ \A i \in 1..Len(a.v) : DeepEqual(a.v[i], b.v[i])
         [] a.t = "obj" ->
              /\ Len(a.v) = Len(b.v)
              /\ MemberKeys(a.v) = MemberKeys(b.v)
              /\ \A k \in MemberKeys(a.v) :
                    DeepEqual(MemberVal(a.v, k), MemberVal(b.v, k))
         [] OTHER -> a = b

\* the values JSON represents: null, booleans, finite numbers, strings, and
\* arrays and objects made of them
RECURSIVE IsJSON(_)
IsJSON(x) ==
    CASE x.t \in {"null", "bool", "num", "str"} -> TRUE
      [] x.t = "arr" -> \A i \in 1..Len(x.v) : IsJSON(x.v[i])
      [] x.t = "obj" ->
            /\ Cardinality(MemberKeys(x.v)) = Len(x.v)
            /\ \A i \in 1..Len(x.v) : IsJSON(x.v[i][2])
      [] OTHER -> FALSE

\* serialization neither throws nor yields undefined
Serializable(x) == ~serialize(x).threw /\ serialize(x).val.t = "str"

Calls == {"get", "set", "remove", "flush", "clear"}

\* the items of s other than those under the keys in ks are the same in s2
SameExcept(s, s2, ks) ==
    /\ DOMAIN s2 \ ks = DOMAIN s \ ks
    /\ \A k \in DOMAIN s \ ks : s2[k] = s[k]

(***************************************************************************)
(* C1.                                                                     *)
(***************************************************************************)
\* C1 as stated: a get(k) that directly follows a set(k, v) of a serializable
\* value v returns a value deep-equal to v.
C1_RoundTripSerializable ==
    [][(/\ last.op = "set" /\ last.outcome = "returned"
        /\ Serializable(last.value)
        /\ last'.op = "get" /\ last'.key = last.key)
       => (/\ last'.outcome = "returned"
           /\ DeepEqual(last'.result, last.value))]_vars

\* C1, amended: a get(k) that directly follows a set(k, v) of a value v that
\* JSON represents (null, a boolean, a finite number, a string, or an array
\* or object of such values) returns a value deep-equal to v.
C1_RoundTripJSON ==
    [][(/\ last.op = "set" /\ last.outcome = "returned"
        /\ IsJSON(last.value)
        /\ last'.op = "get" /\ last'.key = last.key)
       => (/\ last'.outcome = "returned"
           /\ DeepEqual(last'.result, last.value))]_vars

C1_Witness ==
    /\ last.op = "get" /\ last.key = "test" /\ last.outcome = "returned"
    /\ written["test"] = WasSet(ExampleObject)
    /\ last.result = ExampleObject

(***************************************************************************)
(* C2.                                                                     *)
(***************************************************************************)
\* C2: set(k, undefined) does what remove(k) does from the same state: the
\* same outcome and the same items; when it returns, k is absent and every
\* other key keeps its raw text.
C2_SetUndefinedIsRemove ==
    [][(last'.op = "set" /\ last'.value = Undefined)
       => LET r == remove(store, localStorage, last'.key) IN
          /\ store' = r.store
          /\ last'.outcome = r.outcome
          /\ last'.outcome = "returned" =>
                /\ last'.key \notin DOMAIN store'
                /\ SameExcept(store, store', {last'.key})]_vars

C2_Witness ==
    /\ last.op = "set" /\ last.value = Undefined /\ last.key = "test"
    /\ last.outcome = "returned"
    /\ last.had = Keys
    /\ DOMAIN store = {"other"}

C4_ClearLeavesNothing ==
    (last.op = "clear" /\ last.outcome = "returned")
    => /\ DOMAIN store = {}
       /\ \A k \in Keys :
             get(store, localStorage, k) = Returned(store, Null, "none")

C4_Witness ==
    /\ last.op = "clear" /\ last.outcome = "returned"
    /\ last.had = Keys
    /\ DOMAIN store = {}

(***************************************************************************)
(* C5.                                                                     *)
(***************************************************************************)
\* C5: on a reachable storage get(k) returns, leaves the items as they were,
\* and returns null when k is absent and when the raw text at k is not
\* valid JSON.
C5_GetFailSoft ==
    [][(last'.op = "get" /\ localStorage = "ok")
       => /\ last'.outcome = "returned"
          /\ store' = store
          /\ last'.key \notin DOMAIN store => last'.result = Null
          /\ (/\ last'.key \in DOMAIN store
              /\ JSONparse(Str(store[last'.key])).threw)
             => last'.result = Null]_vars

C5_Witness ==
    /\ last.op = "get" /\ last.key = "test" /\ last.outcome = "returned"
    /\ "test" \in DOMAIN store
    /\ store["test"] = <<"{", "b", "a", "d">>
    /\ last.result = Null /\ last.log = "warn"

(***************************************************************************)
(* C6.                                                                     *)
(***************************************************************************)
\* C6: construction returns; if evaluating window.localStorage threw when
\* the instance was constructed, the instance holds present = true and
\* enabled = false and isAvailable() is false; isAvailable() is true exactly
\* when the evaluation succeeded and yielded a non-null handle.
C6_ProbeOutcome ==
    /\ last.op = "new" => last.outcome = "returned"
    /\ probed = "throws" =>
          /\ isLocalStoragePresent /\ ~isLocalStorageEnabled
          /\ ~isAvailable(isLocalStoragePresent, isLocalStorageEnabled)
    /\ isAvailable(isLocalStoragePresent, isLocalStorageEnabled)
          <=> probed = "ok"

C6_Witness ==
    /\ last.op = "new" /\ last.outcome = "returned" /\ last.log = "info"
    /\ probed = "throws"
    /\ written["test"] = WasSet(ExampleObject)
    /\ isLocalStoragePresent /\ ~isLocalStorageEnabled

C8_ProbedOnce ==
    /\ isLocalStoragePresent = checkSupport(probed).present
    /\ isLocalStorageEnabled = checkSupport(probed).enabled
    /\ [][/\ isLocalStoragePresent' = checkSupport(probed').present
          /\ isLocalStorageEnabled' = checkSupport(probed').enabled
          /\ last'.op # "new" =>
                /\ probed' = probed
                /\ isLocalStoragePresent' = isLocalStoragePresent
                /\ isLocalStorageEnabled' = isLocalStorageEnabled
          /\ last'.op = "isAvailable" =>
                /\ store' = store
                /\ last'.outcome = "returned"
                /\ last'.result =
                      Bool(checkSupport(probed).present
                           /\ checkSupport(probed).enabled)]_vars

C8_Witness ==
    /\ last.op = "isAvailable" /\ last.result = Bool(TRUE)
    /\ probed = "ok" /\ localStorage = "throws"
    /\ written["test"] = WasSet(ExampleObject)

(***************************************************************************)
(* C9.                                                                     *)
(***************************************************************************)
\* C9 as stated: while window.localStorage is unreachable, every get, set,
\* remove, flush and clear ends in the storage access's error.
C9_EveryCallFails ==
    [][(last'.op \in Calls /\ localStorage # "ok")
       => last'.outcome = "StoreFailure"]_vars

\* C9, amended: while window.localStorage is unreachable, every get, set,
\* remove and clear, and every flush of a non-empty key list, ends in the
\* storage access's error and leaves the items as they were, whatever the
\* flags say; a flush of the empty list makes no access and returns.  While
\* it is reachable no call ends in that error, whatever the flags say.
C9_CallsFailUnguarded ==
    [][(last'.op \in Calls)
       => /\ (localStorage # "ok" /\ ~(last'.op = "flush" /\ last'.keys = <<>>))
             => (last'.outcome = "StoreFailure" /\ store' = store)
          /\ (last'.op = "flush" /\ last'.keys = <<>>)
             => (last'.outcome = "returned" /\ store' = store)
          /\ localStorage = "ok" => last'.outcome # "StoreFailure"]_vars

C9_Witness ==
    /\ last.op = "get" /\ last.key = "test" /\ last.outcome = "StoreFailure"
    /\ localStorage = "throws"
    /\ ~isAvailable(isLocalStoragePresent, isLocalStorageEnabled)
    /\ written["test"] = WasSet(ExampleObject)

(***************************************************************************)
(* C10.                                                                    *)
(***************************************************************************)
\* what get(k) returns from the items as they are, the storage reachable
Reads(k) == get(store, "ok", k).result

\* C10 as stated: get(k) is the value of the latest set(k, v), v a
\* serializable value, when no removal of k came after it, and null when k
\* was removed or never written.
C10_LastWriteWinsAnyValue ==
    \A k \in Keys :
        /\ (written[k].kind = "set" /\ Serializable(written[k].v))
              => DeepEqual(Reads(k), written[k].v)
        /\ written[k].kind \in {"removed", "none"} =>
              (k \notin DOMAIN store /\ Reads(k) = Null)

\* C10, amended: the storage holds at k the serialization of the value of
\* the latest set(k, v) when no removal of k came after it, so that get(k)
\* is its decoding: deep-equal to v when JSON represents v; get(k) is null
\* when k was removed or never written.
C10_LastWriteWins ==
    \A k \in Keys :
        /\ written[k].kind = "set" =>
              /\ getItem(store, k) = Str(ToString(serialize(written[k].v).val))
              /\ IsJSON(written[k].v) => DeepEqual(Reads(k), written[k].v)
        /\ written[k].kind \in {"removed", "none"} =>
              (k \notin DOMAIN store /\ Reads(k) = Null)

C10_Witness ==
    /\ written["test"] = WasSet(Num(-MaxNum))
    /\ written["other"] = Removed
    /\ last.op = "set" /\ last.key = "test" /\ last.had = {"test"}
    /\ Reads("test") = Num(-MaxNum)
    /\ Reads("other") = Null

====
